---- MODULE Spec2Model ----
(***************************************************************************)
(* The verb grouper of actstream/templatetags/activity_tags.py:            *)
(* group_verbs(actions, aggressiveness), a Python generator, modelled line *)
(* by line.  A state is the generator's frame (its locals and the line it  *)
(* stands at) together with what its consumer has received so far.         *)
(***************************************************************************)
EXTENDS Integers, Sequences, FiniteSets, TLC

\* ------------------------------------------------------------------ bounds

\* Longest enumerated input stream.
MaxLen == 6

\* Largest aggressiveness tried.
MaxAgg == 3

\* Most characters a tag's token holds after the tag's name and a space.
MaxTail == 5

\* ------------------------------------------------------------------ inputs

\* The verbs of the docstring's example, and one more.
VerbOrder == <<"post", "update", "remove", "share", "comment">>

Verbs == {VerbOrder[i] : i \in 1..Len(VerbOrder)}

Rank(v) == CHOOSE i \in 1..Len(VerbOrder) : VerbOrder[i] = v

\* group_verbs reads a verb only to compare it with other verbs (`not in`,
\* dict keys), so every stream is a renaming of one whose verbs first occur
\* in VerbOrder's order; the enumeration keeps those.
FirstUseOrdered(s) ==
    \A i \in 1..Len(s) :
        \/ Rank(s[i]) = 1
        \/ \E j \in 1..(i - 1) : Rank(s[j]) = Rank(s[i]) - 1

BoundedStreams ==
    UNION {{s \in [1..n -> Verbs] : FirstUseOrdered(s)} : n \in 0..MaxLen}

\* The example stream of display_grouped_actions' docstring.
DocStream ==
    <<"post", "update", "update", "remove", "update", "remove", "share",
      "update", "share">>

\* Two runs of one verb separated by a run of another.
RunsStream == <<"post", "post", "update", "update", "post">>

\* Five verbs cycling through open lists of three and of four.
CyclingStream ==
    <<"post", "update", "remove", "share", "post", "update", "comment",
      "post", "update", "remove", "share", "comment">>

Streams == BoundedStreams \cup {DocStream, RunsStream, CyclingStream}

\* The action objects of a stream: the i-th has identity i and the i-th verb.
ActionsOf(s) == [i \in 1..Len(s) |-> [id |-> i, verb |-> s[i]]]

Aggressiveness == (-2)..MaxAgg

\* ------------------------------------------------------------------- state

VARIABLES
    actions,         \* the argument `actions`, a sequence of action objects
    aggressiveness,  \* the argument `aggressiveness`
    consumed,        \* how many items `for action in actions` has fetched
    action,          \* the loop variable of line 67
    verbs,           \* the list `verbs`
    groups,          \* the dict `groups`: verb -> list of actions
    verb,            \* the local `verb` (lines 70 and 74)
    vi,              \* how many items `for verb in verbs` has fetched
    pc,              \* the line the generator stands at, or its status
    error,           \* the exception the generator died of
    emitted,         \* the groups handed to the consumer, in order
    results,         \* aggressiveness -> groups of an earlier, complete run
    before,          \* verbs, groups and emitted as line 67 last found them
    lists,           \* the list objects made by line 73, by first element
    output,          \* render_result's list `output`
    calls,           \* the render_to_string calls made, in order
    result,          \* what render_result returned, once it has
    contents,        \* the contents of an activity_follow_url token
    node             \* what activity_follow_url made of the token

vars ==
    <<actions, aggressiveness, consumed, action, verbs, groups, verb, vi, pc,
      error, emitted, results, before, lists, output, calls, result, contents,
      node>>

\* The state of render_result and of the tag parser, which group_verbs
\* never touches.
sideVars == <<output, calls, result, contents, node>>

NoAction == [id |-> 0, verb |-> "none"]

NoVerb == "none"

EmptyDict == [k \in {} |-> <<>>]

NoSnapshot == [verbs |-> <<>>, groups |-> EmptyDict, emitted |-> <<>>]

NoNode == [kind |-> "none"]

\* ------------------------------------------------------- list and dict ops

\* Faulty variant of NotIn: the verb is compared with the oldest open verb only.
NotIn_OldestOnly(v, list) == list = <<>> \/ list[1] # v

\* `action.verb not in verbs` (line 68)
NotIn(v, list) == \A i \in 1..Len(list) : list[i] # v

\* Faulty variant of Exceeds: one more open verb is tolerated before a flush.
Exceeds_OneMore(list, g) == Len(list) > g + 1

\* Faulty variant of Exceeds: `>=` for `>`.
Exceeds_AtLeast(list, g) == Len(list) >= g

\* `len(verbs) > aggressiveness` (line 69)
Exceeds(list, g) == Len(list) > g

\* Faulty variant of Pop0Value: the newest open verb is taken.
Pop0Value_Newest(list) == list[Len(list)]

\* the value `verbs.pop(0)` returns (line 70)
Pop0Value(list) == list[1]

\* Faulty variant of Pop0Rest: the oldest verb is read but not removed.
Pop0Rest_Keep(list) == list

\* the list `verbs.pop(0)` leaves (line 70)
Pop0Rest(list) == SubSeq(list, 2, Len(list))

\* Faulty variant of DictPop: the buffer is read but stays in the dict.
DictPop_Keep(d, k) == d

\* the dict `groups.pop(verb)` leaves (line 71)
DictPop(d, k) == [x \in (DOMAIN d) \ {k} |-> d[x]]

\* Faulty variant of ListAppend: the verb is inserted at the front.
ListAppend_Front(list, v) == <<v>> \o list

\* `verbs.append(action.verb)` (line 72)
ListAppend(list, v) == Append(list, v)

\* Faulty variant of SetDefaultAppend: the buffer is replaced, not extended.
SetDefaultAppend_Overwrite(d, k, a) ==
    [x \in (DOMAIN d) \cup {k} |-> IF x = k THEN <<a>> ELSE d[x]]

\* Faulty variant of SetDefaultAppend: the action goes to the buffer of the newest
\* open verb instead of its own verb's.
SetDefaultAppend_NewestKey(d, k, a) ==
    LET n == verbs[Len(verbs)] IN
    [x \in (DOMAIN d) \cup {n} |->
        IF x = n
        THEN (IF n \in DOMAIN d THEN Append(d[n], a) ELSE <<a>>)
        ELSE d[x]]

\* Faulty variant of SetDefaultAppend: the action is inserted at the buffer's front.
SetDefaultAppend_Prepend(d, k, a) ==
    [x \in (DOMAIN d) \cup {k} |->
        IF x = k
        THEN (IF k \in DOMAIN d THEN <<a>> \o d[k] ELSE <<a>>)
        ELSE d[x]]

\* `groups.setdefault(action.verb, []).append(action)` (line 73)
SetDefaultAppend(d, k, a) ==
    [x \in (DOMAIN d) \cup {k} |->
        IF x = k
        THEN (IF k \in DOMAIN d THEN Append(d[k], a) ELSE <<a>>)
        ELSE d[x]]

\* The list objects after line 73: a list object is known by its first
\* element (a list is never empty and never loses an element), and every
\* list the dict holds is stored under that name with its present items.
HeapStore(heap, d) ==
    LET named == {d[k][1].id : k \in DOMAIN d} IN
    [x \in (DOMAIN heap) \cup named |->
        IF x \in named
        THEN d[CHOOSE k \in DOMAIN d : d[k][1].id = x]
        ELSE heap[x]]

\* ------------------------------------------------------------------- Init

\* A generator object just created by the call group_verbs(actions,
\* aggressiveness): no line of its body has run.
Fresh(s, g) ==
    /\ actions = ActionsOf(s)
    /\ aggressiveness = g
    /\ consumed = 0
    /\ action = NoAction
    /\ verbs = <<>>
    /\ groups = EmptyDict
    /\ verb = NoVerb
    /\ vi = 0
    /\ pc = "created"
    /\ error = "none"
    /\ emitted = <<>>
    /\ before = NoSnapshot
    /\ lists = EmptyDict

\* No rendering under way and no tag parsed.
Idle ==
    /\ output = <<>>
    /\ calls = <<>>
    /\ result = <<>>
    /\ contents = <<>>
    /\ node = NoNode

Init ==
    /\ \E s \in Streams, g \in Aggressiveness : Fresh(s, g)
    /\ results = EmptyDict
    /\ Idle

\* ----------------------------------------------------------------- actions

\* The consumer's first next(): lines 65-66 run.
Start ==
    /\ pc = "created"
    /\ verbs' = <<>>
    /\ groups' = EmptyDict
    /\ pc' = "L67"
    /\ UNCHANGED <<actions, aggressiveness, consumed, action, verb, vi, error,
                   emitted, results>>
    /\ UNCHANGED <<before, lists>>
    /\ UNCHANGED sideVars

\* line 67: for action in actions
ForAction ==
    /\ pc = "L67"
    /\ IF consumed < Len(actions)
       THEN /\ action' = actions[consumed + 1]
            /\ consumed' = consumed + 1
            /\ pc' = "L68"
            /\ vi' = vi
            /\ before' = [verbs |-> verbs, groups |-> groups,
                          emitted |-> emitted]
       ELSE /\ pc' = "L74"
            /\ vi' = 0
            /\ UNCHANGED <<action, consumed, before>>
    /\ UNCHANGED <<actions, aggressiveness, verbs, groups, verb, error,
                   emitted, results>>
    /\ UNCHANGED lists
    /\ UNCHANGED sideVars

\* line 68: if action.verb not in verbs
TestOpen ==
    /\ pc = "L68"
    /\ pc' = IF NotIn(action.verb, verbs) THEN "L69" ELSE "L73"
    /\ UNCHANGED <<actions, aggressiveness, consumed, action, verbs, groups,
                   verb, vi, error, emitted, results>>
    /\ UNCHANGED <<before, lists>>
    /\ UNCHANGED sideVars

\* line 69: if len(verbs) > aggressiveness
TestExceeds ==
    /\ pc = "L69"
    /\ pc' = IF Exceeds(verbs, aggressiveness) THEN "L70" ELSE "L72"
    /\ UNCHANGED <<actions, aggressiveness, consumed, action, verbs, groups,
                   verb, vi, error, emitted, results>>
    /\ UNCHANGED <<before, lists>>
    /\ UNCHANGED sideVars

\* line 70: verb = verbs.pop(0); IndexError on an empty list
PopOldest ==
    /\ pc = "L70"
    /\ IF verbs = <<>>
       THEN /\ pc' = "raised"
            /\ error' = "IndexError"
            /\ UNCHANGED <<verb, verbs>>
       ELSE /\ verb' = Pop0Value(verbs)
            /\ verbs' = Pop0Rest(verbs)
            /\ pc' = "L71"
            /\ error' = error
    /\ UNCHANGED <<actions, aggressiveness, consumed, action, groups, vi,
                   emitted, results>>
    /\ UNCHANGED <<before, lists>>
    /\ UNCHANGED sideVars

\* line 71: yield (verb, groups.pop(verb)); KeyError on a missing key.  The
\* pop is evaluated before the generator suspends.
YieldFlushed ==
    /\ pc = "L71"
    /\ IF verb \in DOMAIN groups
       THEN /\ emitted' = Append(emitted, <<verb, groups[verb]>>)
            /\ groups' = DictPop(groups, verb)
            /\ pc' = "Y71"
            /\ error' = error
       ELSE /\ pc' = "raised"
            /\ error' = "KeyError"
            /\ UNCHANGED <<emitted, groups>>
    /\ UNCHANGED <<actions, aggressiveness, consumed, action, verbs, verb, vi,
                   results>>
    /\ UNCHANGED <<before, lists>>
    /\ UNCHANGED sideVars

\* The consumer's next() on the generator suspended at line 71.
ResumeLoop ==
    /\ pc = "Y71"
    /\ pc' = "L72"
    /\ UNCHANGED <<actions, aggressiveness, consumed, action, verbs, groups,
                   verb, vi, error, emitted, results>>
    /\ UNCHANGED <<before, lists>>
    /\ UNCHANGED sideVars

\* line 72: verbs.append(action.verb)
OpenVerb ==
    /\ pc = "L72"
    /\ verbs' = ListAppend(verbs, action.verb)
    /\ pc' = "L73"
    /\ UNCHANGED <<actions, aggressiveness, consumed, action, groups, verb, vi,
                   error, emitted, results>>
    /\ UNCHANGED <<before, lists>>
    /\ UNCHANGED sideVars

\* line 73: groups.setdefault(action.verb, []).append(action)
AppendAction ==
    /\ pc = "L73"
    /\ groups' = SetDefaultAppend(groups, action.verb, action)
    /\ lists' = HeapStore(lists, groups')
    /\ pc' = "L67"
    /\ UNCHANGED <<actions, aggressiveness, consumed, action, verbs, verb, vi,
                   error, emitted, results>>
    /\ UNCHANGED before
    /\ UNCHANGED sideVars

\* Faulty variant of ForVerb: the open verbs are visited newest first.
ForVerb_NewestFirst ==
    /\ pc = "L74"
    /\ IF vi < Len(verbs)
       THEN /\ verb' = verbs[Len(verbs) - vi]
            /\ vi' = vi + 1
            /\ pc' = "L75"
       ELSE /\ pc' = "done"
            /\ UNCHANGED <<verb, vi>>
    /\ UNCHANGED <<actions, aggressiveness, consumed, action, verbs, groups,
                   error, emitted, results>>
    /\ UNCHANGED <<before, lists>>
    /\ UNCHANGED sideVars

\* line 74: for verb in verbs; the generator returns when it is exhausted
ForVerb ==
    /\ pc = "L74"
    /\ IF vi < Len(verbs)
       THEN /\ verb' = verbs[vi + 1]
            /\ vi' = vi + 1
            /\ pc' = "L75"
       ELSE /\ pc' = "done"
            /\ UNCHANGED <<verb, vi>>
    /\ UNCHANGED <<actions, aggressiveness, consumed, action, verbs, groups,
                   error, emitted, results>>
    /\ UNCHANGED <<before, lists>>
    /\ UNCHANGED sideVars

\* line 75: yield (verb, groups[verb]); KeyError on a missing key
YieldFinal ==
    /\ pc = "L75"
    /\ IF verb \in DOMAIN groups
       THEN /\ emitted' = Append(emitted, <<verb, groups[verb]>>)
            /\ pc' = "Y75"
            /\ error' = error
       ELSE /\ pc' = "raised"
            /\ error' = "KeyError"
            /\ emitted' = emitted
    /\ UNCHANGED <<actions, aggressiveness, consumed, action, verbs, groups,
                   verb, vi, results>>
    /\ UNCHANGED <<before, lists>>
    /\ UNCHANGED sideVars

\* The consumer's next() on the generator suspended at line 75.
ResumeFinal ==
    /\ pc = "Y75"
    /\ pc' = "L74"
    /\ UNCHANGED <<actions, aggressiveness, consumed, action, verbs, groups,
                   verb, vi, error, emitted, results>>
    /\ UNCHANGED <<before, lists>>
    /\ UNCHANGED sideVars

Next ==
    \/ Start
    \/ ForAction
    \/ TestOpen
    \/ TestExceeds
    \/ PopOldest
    \/ YieldFlushed
    \/ ResumeLoop
    \/ OpenVerb
    \/ AppendAction
    \/ ForVerb
    \/ YieldFinal
    \/ ResumeFinal

Spec == Init /\ [][Next]_vars

\* The consumer keeps asking for the next group and the interpreter keeps
\* running the generator's body: a step that can be taken is taken.
SpecLive == Init /\ [][Next]_vars /\ WF_vars(Next)

\* ------------------------------------------- rendering one stream again

\* display_grouped_actions rendered once more on the same actions with the
\* next aggressiveness (the docstring renders one list with 0, 1 and 2):
\* the finished run's groups are kept and a new generator is created.
Rerun ==
    /\ pc = "done"
    /\ aggressiveness >= 0
    /\ aggressiveness < MaxAgg
    /\ results' = [g \in (DOMAIN results) \cup {aggressiveness} |->
                      IF g = aggressiveness THEN emitted ELSE results[g]]
    /\ actions' = actions
    /\ aggressiveness' = aggressiveness + 1
    /\ consumed' = 0
    /\ action' = NoAction
    /\ verbs' = <<>>
    /\ groups' = EmptyDict
    /\ verb' = NoVerb
    /\ vi' = 0
    /\ pc' = "created"
    /\ error' = "none"
    /\ emitted' = <<>>
    /\ before' = NoSnapshot
    /\ lists' = EmptyDict
    /\ UNCHANGED sideVars

InitRerun ==
    /\ \E s \in Streams : Fresh(s, 0)
    /\ results = EmptyDict
    /\ Idle

NextRerun == Next \/ Rerun

SpecRerun == InitRerun /\ [][NextRerun]_vars

\* ------------------------------------------------ rendering the groups

\* activity_templates(verb, template_name) (lines 57-61): the verb's own
\* template, then the default one.  A path is kept as its segments; no verb
\* of Verbs holds a space, so replace(' ', '_') leaves each as it is.
ActivityTemplates(v, template_name) ==
    << <<"activity", v, template_name>>, <<"activity", template_name>> >>

Numerals == <<"1", "2", "3", "4", "5", "6", "7", "8", "9", "10", "11", "12">>

IdText(i) == IF i \in DOMAIN Numerals THEN Numerals[i] ELSE "n"

\* render_to_string(templates, {'verb': verb, 'actions': actions}, context)
\* (lines 209-210): Django's renderer, outside the repository.  It stands
\* for any template that shows the verb and each action: a string, as the
\* sequence of its characters.
RenderToString(templates, ctx) ==
    <<"[", ctx.verb, ":">>
        \o [i \in 1..Len(ctx.actions) |-> IdText(ctx.actions[i].id)]
        \o <<"]">>

\* Faulty variant of ListExtend: the fragment is put in front of the list.
ListExtend_Front(list, s) == [i \in 1..Len(s) |-> <<s[i]>>] \o list

\* `output += <string>` (line 209): a list extended by a string takes each
\* character of it as one item, a string of length one.
ListExtend(list, s) == list \o [i \in 1..Len(s) |-> <<s[i]>>]

\* ''.join(output) (line 211): the items' characters, in order.
RECURSIVE Join(_)
Join(list) == IF list = <<>> THEN <<>> ELSE Head(list) \o Join(Tail(list))

\* The group render_result's loop has just received (line 207).
Received == emitted[Len(emitted)]

\* lines 208-210: the received group is rendered and output extended.
RenderGroup ==
    /\ pc \in {"Y71", "Y75"}
    /\ Len(calls) < Len(emitted)
    /\ LET templates == ActivityTemplates(Received[1], "actions.html")
           ctx == [verb |-> Received[1], actions |-> Received[2]]
       IN /\ calls' = Append(calls, [templates |-> templates, context |-> ctx])
          /\ output' = ListExtend(output, RenderToString(templates, ctx))
    /\ UNCHANGED <<actions, aggressiveness, consumed, action, verbs, groups,
                   verb, vi, pc, error, emitted, results, before, lists,
                   result, contents, node>>

\* line 207: the loop asks for the next group, the last one being rendered.
NextInLoop == Len(calls) = Len(emitted) /\ ResumeLoop

NextInFinal == Len(calls) = Len(emitted) /\ ResumeFinal

\* line 211: the generator is exhausted and render_result returns.
ReturnJoined ==
    /\ pc = "done"
    /\ result = <<>>
    /\ result' = <<Join(output)>>
    /\ UNCHANGED <<actions, aggressiveness, consumed, action, verbs, groups,
                   verb, vi, pc, error, emitted, results, before, lists,
                   output, calls, contents, node>>

\* render_result called with the resolved actions and aggressiveness
\* (lines 204-206).
InitRender ==
    /\ \E s \in Streams, g \in Aggressiveness : Fresh(s, g)
    /\ results = EmptyDict
    /\ Idle

NextRender ==
    \/ Start
    \/ ForAction
    \/ TestOpen
    \/ TestExceeds
    \/ PopOldest
    \/ YieldFlushed
    \/ OpenVerb
    \/ AppendAction
    \/ ForVerb
    \/ YieldFinal
    \/ RenderGroup
    \/ NextInLoop
    \/ NextInFinal
    \/ ReturnJoined

SpecRender == InitRender /\ [][NextRender]_vars

\* ------------------------------------------- the activity_follow_url tag

\* The tag's name, one symbol of the token; the other characters are a
\* space and two letters.
TagName == "activity_follow_url"

TagChars == {" ", "a", "b"}

\* What tokens.contents can be when the tag function is called: stripped,
\* and beginning with the tag's name as a whole word.
TagContents ==
    {<<TagName>>} \cup
    UNION {{<<TagName, " ">> \o s : s \in {x \in [1..n -> TagChars] : x[n] # " "}}
              : n \in 1..MaxTail}

\* str.split() (line 110): the maximal runs of characters other than
\* white space, in order; no empty string.
RECURSIVE Split(_)
Split(s) ==
    IF s = <<>> THEN <<>>
    ELSE IF Head(s) = " " THEN Split(Tail(s))
    ELSE LET rest == Tail(s)
             more == Split(rest)
         IN IF rest # <<>> /\ Head(rest) # " "
            THEN << <<Head(s)>> \o Head(more) >> \o Tail(more)
            ELSE << <<Head(s)>> >> \o more

\* activity_follow_url(parser, tokens) (lines 109-114); bits[1] of the
\* source is the second word.
ParseFollowUrl ==
    /\ contents # <<>>
    /\ node = NoNode
    /\ LET bits == Split(contents)
       IN node' = IF Len(bits) # 3
                  THEN [kind |-> "TemplateSyntaxError"]
                  ELSE [kind |-> "DisplayActivityFollowUrl", obj |-> bits[2]]
    /\ UNCHANGED <<actions, aggressiveness, consumed, action, verbs, groups,
                   verb, vi, pc, error, emitted, results, before, lists,
                   output, calls, result, contents>>

\* A template holding one activity_follow_url tag is compiled; no stream
\* is grouped.
InitTag ==
    /\ Fresh(<<>>, 0)
    /\ results = EmptyDict
    /\ output = <<>>
    /\ calls = <<>>
    /\ result = <<>>
    /\ contents \in TagContents
    /\ node = NoNode

NextTag == ParseFollowUrl

SpecTag == InitTag /\ [][NextTag]_vars

\* ------------------------------------------------- vocabulary of the claims

\* The places <<g, k>> of the output: the k-th action of the g-th group.
Places ==
    {p \in (1..Len(emitted)) \X (1..Len(actions)) : p[2] <= Len(emitted[p[1]][2])}

At(p) == emitted[p[1]][2][p[2]]

PlacesOf(a) == {p \in Places : At(p) = a}

\* The consumer has drained a generator that was given a valid aggressiveness.
Drained == pc = "done" /\ aggressiveness >= 0

\* Place p comes before place q in the output.
Before(p, q) == p[1] < q[1] \/ (p[1] = q[1] /\ p[2] < q[2])

\* ---------------------------------------------------------------- claims

\* C1: once group_verbs is fully consumed (aggressiveness >= 0), every input
\* action is in exactly one emitted group, exactly once, and nothing else is
\* emitted: no action dropped, none duplicated.
C1_Completeness ==
    Drained =>
        /\ \A i \in 1..Len(actions) : Cardinality(PlacesOf(actions[i])) = 1
        /\ \A p \in Places : \E i \in 1..Len(actions) : At(p) = actions[i]

\* C1 witness: a drained run in which a group was flushed mid-stream and a
\* verb came back after its flush.
C1_Witness ==
    /\ Drained
    /\ Len(actions) >= 4
    /\ Len(emitted) > Len(verbs)
    /\ \E g, h \in 1..Len(emitted) : g # h /\ emitted[g][1] = emitted[h][1]

\* C2: every emitted group (verb, actions) holds only actions of that verb.
C2_Homogeneous ==
    aggressiveness >= 0 =>
        \A p \in Places : At(p).verb = emitted[p[1]][1]

\* C2 witness: several groups emitted, one of them holding actions that were
\* not adjacent in the input.
C2_Witness ==
    /\ aggressiveness >= 1
    /\ Len(emitted) >= 2
    /\ \E g \in 1..Len(emitted) :
          /\ Len(emitted[g][2]) >= 2
          /\ emitted[g][2][2].id > emitted[g][2][1].id + 1

\* C3: two input actions of one verb keep their input order in the output:
\* the earlier one is in an earlier group, or earlier in the same group.
C3_OrderWithinVerb ==
    Drained =>
        \A i, j \in 1..Len(actions) :
            (i < j /\ actions[i].verb = actions[j].verb) =>
                \A p \in PlacesOf(actions[i]), q \in PlacesOf(actions[j]) :
                    Before(p, q)

\* C3 witness: a drained run where a verb has actions in one group and a
\* later action in another group.
C3_Witness ==
    /\ Drained
    /\ \E g, h \in 1..Len(emitted) :
          /\ g < h
          /\ emitted[g][1] = emitted[h][1]
          /\ Len(emitted[g][2]) >= 2

\* The group (v, [the actions of verb v at input positions ids]).
Group(v, ids) == <<v, [k \in 1..Len(ids) |-> [id |-> ids[k], verb |-> v]]>>

\* Where the maximal run of equal verbs starting at input position i ends.
RunEnd(i) ==
    CHOOSE e \in i..Len(actions) :
        /\ \A k \in i..e : actions[k].verb = actions[i].verb
        /\ e = Len(actions) \/ actions[e + 1].verb # actions[i].verb

\* The maximal runs of equal verbs from input position i on, as groups.
RECURSIVE RunsFrom(_)
RunsFrom(i) ==
    IF i > Len(actions)
    THEN <<>>
    ELSE <<  <<actions[i].verb, SubSeq(actions, i, RunEnd(i))>>  >>
            \o RunsFrom(RunEnd(i) + 1)

\* The docstring's list of groups for aggressiveness 0.
DocGroups0 ==
    << Group("post", <<1>>), Group("update", <<2, 3>>), Group("remove", <<4>>),
       Group("update", <<5>>), Group("remove", <<6>>), Group("share", <<7>>),
       Group("update", <<8>>), Group("share", <<9>>) >>

\* C4: with aggressiveness 0 the output is exactly the maximal contiguous
\* runs of equal verbs, in input order; [A,A,B,B,A] gives (A,[A,A]),
\* (B,[B,B]), (A,[A]) and the docstring's stream gives its 8 listed groups.
C4_ZeroIsRuns ==
    (Drained /\ aggressiveness = 0) =>
        /\ emitted = RunsFrom(1)
        /\ actions = ActionsOf(RunsStream) =>
              emitted = << Group("post", <<1, 2>>), Group("update", <<3, 4>>),
                           Group("post", <<5>>) >>
        /\ actions = ActionsOf(DocStream) => emitted = DocGroups0

\* C4 witness: the docstring's stream drained with aggressiveness 0.
C4_Witness ==
    /\ Drained
    /\ aggressiveness = 0
    /\ actions = ActionsOf(DocStream)
    /\ Len(emitted) = 8

\* The docstring's list of groups for aggressiveness 1.
DocGroups1 ==
    << Group("post", <<1>>), Group("update", <<2, 3, 5>>),
       Group("remove", <<4, 6>>), Group("share", <<7, 9>>),
       Group("update", <<8>>) >>

\* The docstring's list of groups for aggressiveness 2.
DocGroups2 ==
    << Group("post", <<1>>), Group("update", <<2, 3, 5, 8>>),
       Group("remove", <<4, 6>>), Group("share", <<7, 9>>) >>

\* C5: on the docstring's stream, aggressiveness 1 and 2 give exactly the
\* groups the docstring lists, in its order.
C5_DocExample ==
    (Drained /\ actions = ActionsOf(DocStream)) =>
        /\ aggressiveness = 1 => emitted = DocGroups1
        /\ aggressiveness = 2 => emitted = DocGroups2

\* C5 witness: the docstring's stream drained with aggressiveness 2.
C5_Witness ==
    /\ Drained
    /\ actions = ActionsOf(DocStream)
    /\ aggressiveness = 2
    /\ Len(emitted) = 4

\* C6: at every line and at every suspension, at most aggressiveness + 1
\* verbs are open and at most aggressiveness + 1 buffers are held.
C6_BoundedBuffering ==
    aggressiveness >= 0 =>
        /\ Len(verbs) <= aggressiveness + 1
        /\ Cardinality(DOMAIN groups) <= aggressiveness + 1

\* C6 witness: after a flush the open list is full again, at a suspension.
C6_Witness ==
    /\ aggressiveness >= 1
    /\ pc = "Y75"
    /\ Len(emitted) > vi
    /\ Len(verbs) = aggressiveness + 1
    /\ Cardinality(DOMAIN groups) = aggressiveness + 1

\* C7: a negative aggressiveness is rejected with InvalidArgument, whatever
\* the input: the run emits no group, does not complete normally, and the
\* error it ends with is InvalidArgument.
C7_NegativeRejected ==
    aggressiveness < 0 =>
        /\ pc # "done"
        /\ emitted = <<>>
        /\ pc = "raised" => error = "InvalidArgument"

\* C8: with aggressiveness >= 0 the grouper never raises, line 70 never pops
\* an empty open list, the empty input gives no group and a single action
\* gives one group holding it.
C8_NeverRaises ==
    aggressiveness >= 0 =>
        /\ pc # "raised"
        /\ error = "none"
        /\ pc = "L70" => verbs # <<>>
        /\ (pc = "done" /\ actions = <<>>) => emitted = <<>>
        /\ (pc = "done" /\ Len(actions) = 1) =>
              emitted = << <<actions[1].verb, <<actions[1]>> >> >>

\* C8 witness: a run that popped the oldest open verb and completed.
C8_Witness ==
    /\ Drained
    /\ Len(emitted) > Len(verbs)
    /\ error = "none"

\* C9 as stated: for aggressiveness a < b the run with b emits no more
\* groups than the run with a did on the same input.
C9_MonotoneCount ==
    pc = "done" =>
        \A a \in DOMAIN results :
            a < aggressiveness => Len(emitted) <= Len(results[a])

\* C9 amended: no aggressiveness b > 0 emits more groups than aggressiveness
\* 0 did on the same input.
C9_NoMoreThanZero ==
    (pc = "done" /\ 0 \in DOMAIN results) =>
        Len(emitted) <= Len(results[0])

\* C9 witness: a later run that merged, emitting fewer groups than the run
\* with aggressiveness 0.
C9_Witness ==
    /\ pc = "done"
    /\ aggressiveness >= 2
    /\ 0 \in DOMAIN results
    /\ Len(emitted) < Len(results[0])
    /\ Len(emitted) > Len(verbs)

\* The verbs, other than v, of the actions strictly between positions i, j.
OtherVerbsBetween(i, j, v) ==
    {actions[k].verb : k \in (i + 1)..(j - 1)} \ {v}

\* Input positions i and j are emitted in the same group.
SameGroup(i, j) ==
    \E p \in PlacesOf(actions[i]), q \in PlacesOf(actions[j]) : p[1] = q[1]

\* C10 as stated: two actions of one verb with no action of that verb
\* between them and at most aggressiveness distinct other verbs between them
\* are emitted in the same group.
C10_GapsAllowed ==
    Drained =>
        \A i, j \in 1..Len(actions) :
            ( /\ i < j
              /\ actions[i].verb = actions[j].verb
              /\ \A k \in (i + 1)..(j - 1) : actions[k].verb # actions[i].verb
              /\ Cardinality(OtherVerbsBetween(i, j, actions[i].verb))
                    <= aggressiveness )
            => SameGroup(i, j)

\* C10 amended: the gaps count from the action that opened the group: an
\* action y of the verb of a group's first action x, with at most
\* aggressiveness distinct other verbs strictly between x and y, is emitted
\* in x's group.
C10_GapsFromOpener ==
    Drained =>
        \A g \in 1..Len(emitted) : \A j \in 1..Len(actions) :
            LET x == emitted[g][2][1] IN
            ( /\ x.id < j
              /\ actions[j].verb = x.verb
              /\ Cardinality(OtherVerbsBetween(x.id, j, x.verb))
                    <= aggressiveness )
            => \E p \in PlacesOf(actions[j]) : p[1] = g

\* C10 witness: a group whose opener is followed, across other verbs and
\* across a flush, by an action emitted with it.
C10_Witness ==
    /\ Drained
    /\ aggressiveness >= 1
    /\ Len(emitted) > Len(verbs)
    /\ \E g \in 1..Len(emitted) :
          /\ Len(emitted[g][2]) >= 2
          /\ emitted[g][2][2].id > emitted[g][2][1].id + 1

\* The fragment a renderer makes of the k-th emitted group.
FragmentOf(k) ==
    RenderToString(ActivityTemplates(emitted[k][1], "actions.html"),
                   [verb |-> emitted[k][1], actions |-> emitted[k][2]])

\* The fragments of the first k emitted groups, one after the other.
RECURSIVE FragmentsUpTo(_)
FragmentsUpTo(k) ==
    IF k = 0 THEN <<>> ELSE FragmentsUpTo(k - 1) \o FragmentOf(k)

\* C11: render_result renders each emitted group exactly once, in emission
\* order, with that group's verb and action list, and returns exactly the
\* rendered fragments one after the other in that order.
C11_RenderedInOrder ==
    /\ Len(calls) <= Len(emitted)
    /\ \A k \in 1..Len(calls) :
          calls[k].context = [verb |-> emitted[k][1], actions |-> emitted[k][2]]
    /\ result # <<>> =>
          /\ Len(calls) = Len(emitted)
          /\ result[1] = FragmentsUpTo(Len(emitted))

\* C11 witness: render_result has returned the rendering of several groups,
\* one of them flushed mid-stream.
C11_Witness ==
    /\ result # <<>>
    /\ Len(emitted) >= 3
    /\ Len(emitted) > Len(verbs)
    /\ Len(result[1]) > Len(emitted)

\* C12: activity_follow_url takes the tag's name followed by exactly one
\* argument and returns a node for that argument; with any other number of
\* arguments it raises TemplateSyntaxError.
C12_OneArgument ==
    node # NoNode =>
        LET words == Split(contents) IN
        IF Len(words) = 2
        THEN node = [kind |-> "DisplayActivityFollowUrl", obj |-> words[2]]
        ELSE node = [kind |-> "TemplateSyntaxError"]

\* The loop body has just finished with `action` (the generator is back at
\* line 67), and `before` is what the body found.
BodyDone == pc = "L67" /\ consumed > 0

\* The verb of `action` was open when the body began.
WasOpen == \E i \in 1..Len(before.verbs) : before.verbs[i] = action.verb

\* The input actions of verb v at positions from..to, in input order.
OfVerbIn(v, from, to) ==
    LET Keep(a) == a.verb = v /\ a.id >= from /\ a.id <= to
    IN SelectSeq(actions, Keep)

\* The dict d without key k.
Without(d, k) == [x \in (DOMAIN d) \ {k} |-> d[x]]

\* The dict d with key k bound to list l.
With(d, k, l) == [x \in (DOMAIN d) \cup {k} |-> IF x = k THEN l ELSE d[x]]

\* C13: an action whose verb is not open, met with more than aggressiveness
\* verbs open, makes exactly one group be emitted: the verb open longest,
\* with all the actions buffered for it since it was opened; that verb
\* leaves the open list and the buffers, and the new verb becomes the newest
\* open verb with a buffer of just this action.  With at most aggressiveness
\* verbs open nothing is emitted.
C13_FifoFlush ==
    (aggressiveness >= 0 /\ BodyDone /\ ~WasOpen) =>
        IF Len(before.verbs) > aggressiveness
        THEN LET oldest == before.verbs[1]
                 buffer == before.groups[oldest]
             IN /\ emitted = Append(before.emitted, <<oldest, buffer>>)
                /\ \A w \in DOMAIN before.groups :
                      buffer[1].id <= before.groups[w][1].id
                /\ buffer = OfVerbIn(oldest, buffer[1].id, consumed - 1)
                /\ \A i \in 1..Len(verbs) : verbs[i] # oldest
                /\ oldest \notin DOMAIN groups
                /\ verbs = Tail(before.verbs) \o <<action.verb>>
                /\ groups = With(Without(before.groups, oldest),
                                 action.verb, <<action>>)
        ELSE /\ emitted = before.emitted
             /\ verbs = before.verbs \o <<action.verb>>
             /\ groups = With(before.groups, action.verb, <<action>>)

\* C13 witness: a new verb has flushed an oldest verb holding several
\* actions while other verbs stayed open.
C13_Witness ==
    /\ aggressiveness >= 1
    /\ BodyDone
    /\ ~WasOpen
    /\ Len(before.verbs) > aggressiveness
    /\ Len(before.groups[before.verbs[1]]) >= 2

\* C14: an action whose verb is already open emits nothing, goes to the end
\* of that verb's buffer, and leaves the order of the open verbs and every
\* other buffer as they were.
C14_OpenVerbAppends ==
    (BodyDone /\ WasOpen) =>
        /\ emitted = before.emitted
        /\ verbs = before.verbs
        /\ DOMAIN groups = DOMAIN before.groups
        /\ groups[action.verb] = Append(before.groups[action.verb], action)
        /\ \A w \in (DOMAIN groups) \ {action.verb} :
              groups[w] = before.groups[w]

\* C14 witness: the oldest of several open verbs, with the open list full,
\* has received one more action and is still the oldest.
C14_Witness ==
    /\ BodyDone
    /\ WasOpen
    /\ Len(verbs) = aggressiveness + 1
    /\ Len(verbs) >= 2
    /\ verbs[1] = action.verb

\* The input is exhausted: the generator is in its final loop or past it.
FinalPhase == pc \in {"L74", "L75", "Y75", "done"}

\* How many groups the final loop has yielded.
FinalYielded == IF pc = "L75" THEN vi - 1 ELSE vi

\* In the final loop the groups yielded so far are the first open verbs, in
\* open order, each with every action of its verb since it was opened; at
\* the end every open verb has been yielded once.
FinalFlushInOrder ==
    (aggressiveness >= 0 /\ FinalPhase) =>
        /\ consumed = Len(actions)
        /\ \A i, j \in 1..Len(verbs) :
              i < j => groups[verbs[i]][1].id < groups[verbs[j]][1].id
        /\ Len(emitted) >= FinalYielded
        /\ \A k \in 1..FinalYielded :
              LET g == emitted[Len(emitted) - FinalYielded + k]
              IN /\ g = <<verbs[k], groups[verbs[k]]>>
                 /\ g[2] = OfVerbIn(verbs[k], g[2][1].id, Len(actions))
        /\ pc = "done" => FinalYielded = Len(verbs)

\* The final loop changes neither the open verbs nor their buffers, and
\* nothing is emitted once the generator has returned.
FinalFlushFrame ==
    FinalPhase =>
        /\ verbs' = verbs
        /\ groups' = groups
        /\ pc = "done" => emitted' = emitted

\* C15: once the input is exhausted every verb still open is emitted exactly
\* once, oldest first, each with its full buffer, and the output ends there;
\* a generator that keeps being consumed (aggressiveness >= 0) eventually
\* terminates.
C15_FinalFlush ==
    /\ []FinalFlushInOrder
    /\ [][FinalFlushFrame]_vars
    /\ <>(aggressiveness < 0 \/ pc = "done")

\* C15 witness: a terminated run whose final loop emitted several verbs
\* after a mid-stream flush.
C15_Witness ==
    /\ pc = "done"
    /\ aggressiveness >= 1
    /\ vi >= 2
    /\ vi = Len(verbs)
    /\ Len(emitted) > vi

\* The list object handed out with the g-th group, as it is now.
HeldList(g) == lists[emitted[g][2][1].id]

\* C16: a list handed out with a group is never changed by later input, and
\* a verb that comes back after its flush gets a new group: every action of
\* the later group was consumed after the earlier group's last action and
\* after an action of another verb that followed it; the two groups share
\* no action.
C16_ReopenedIsNew ==
    aggressiveness >= 0 =>
        /\ \A g \in 1..Len(emitted) :
              /\ emitted[g][2][1].id \in DOMAIN lists
              /\ HeldList(g) = emitted[g][2]
        /\ \A g, h \in 1..Len(emitted) :
              (g < h /\ emitted[g][1] = emitted[h][1]) =>
                  \E k \in 1..consumed :
                      /\ actions[k].verb # emitted[g][1]
                      /\ \A i \in 1..Len(emitted[g][2]) : emitted[g][2][i].id < k
                      /\ \A j \in 1..Len(emitted[h][2]) : emitted[h][2][j].id > k

\* C16 witness: a verb flushed with several actions has come back, taken
\* more than one action, and been emitted again.
C16_Witness ==
    /\ aggressiveness >= 0
    /\ \E g, h \in 1..Len(emitted) :
          /\ g < h
          /\ emitted[g][1] = emitted[h][1]
          /\ Len(emitted[g][2]) >= 2
          /\ Len(emitted[h][2]) >= 2

\* The places <<w, k>> of the buffers: the k-th action buffered for verb w.
BufferPlaces ==
    {b \in (DOMAIN groups) \X (1..Len(actions)) : b[2] <= Len(groups[b[1]])}

\* How often action a occurs in the emitted groups and the open buffers.
Held(a) ==
    Cardinality(PlacesOf(a))
        + Cardinality({b \in BufferPlaces : groups[b[1]][b[2]] = a})

\* C17: nothing is read before the first group is asked for; when a group
\* is handed out mid-stream the input has been read up to and including the
\* action whose new verb forced the flush and no further; and at that
\* suspension the emitted groups, the open buffers and that one action
\* account for the consumed prefix, each action once, the flushed verb
\* being neither open nor buffered.
C17_LazyAndAccounted ==
    /\ pc = "created" => (consumed = 0 /\ emitted = <<>>)
    /\ pc = "Y71" =>
          /\ consumed >= 1
          /\ action = actions[consumed]
          /\ \A i \in 1..Len(verbs) : verbs[i] # action.verb
          /\ action.verb \notin DOMAIN groups
          /\ Len(verbs) = aggressiveness
          /\ \A i \in 1..(consumed - 1) : Held(actions[i]) = 1
          /\ \A i \in consumed..Len(actions) : Held(actions[i]) = 0
          /\ \A i \in 1..Len(verbs) : verbs[i] # Received[1]
          /\ Received[1] \notin DOMAIN groups
          /\ DOMAIN groups = {verbs[i] : i \in 1..Len(verbs)}

\* C17 witness: a second group handed out mid-stream, with input left to
\* read and other verbs still buffered.
C17_Witness ==
    /\ pc = "Y71"
    /\ Len(emitted) >= 2
    /\ consumed < Len(actions)
    /\ Len(verbs) >= 1

\* The input position of the first action of the g-th emitted group.
OpenedAt(g) == emitted[g][2][1].id

\* C18: groups are emitted in the order they were opened: the input
\* positions of the groups' first actions increase along the output.
C18_EmittedInOpenOrder ==
    aggressiveness >= 0 =>
        \A g, h \in 1..Len(emitted) : g < h => OpenedAt(g) < OpenedAt(h)

\* C18 witness: a drained run in which a group holds an action that came
\* later in the input than the first action of the group emitted after it.
C18_Witness ==
    /\ Drained
    /\ \E g \in 1..(Len(emitted) - 1) :
          emitted[g][2][Len(emitted[g][2])].id > OpenedAt(g + 1)

\* C19: any aggressiveness + 2 groups emitted one after the other have
\* pairwise different verbs, and no emitted group is empty.
C19_SameVerbFarApart ==
    aggressiveness >= 0 =>
        /\ \A g, h \in 1..Len(emitted) :
              (g < h /\ h - g <= aggressiveness + 1) =>
                  emitted[g][1] # emitted[h][1]
        /\ \A g \in 1..Len(emitted) : emitted[g][2] # <<>>

\* C19 witness: two groups of one verb exactly aggressiveness + 2 places
\* apart, with aggressiveness at least 1.
C19_Witness ==
    /\ aggressiveness >= 1
    /\ \E g, h \in 1..Len(emitted) :
          /\ h = g + aggressiveness + 2
          /\ emitted[g][1] = emitted[h][1]

\* The distinct verbs of the input.
InputVerbs == {actions[i].verb : i \in 1..Len(actions)}

\* The input position at which verb v first occurs.
FirstAt(v) ==
    CHOOSE i \in 1..Len(actions) :
        actions[i].verb = v /\ \A j \in 1..(i - 1) : actions[j].verb # v

\* Aggressiveness is at least the number of distinct verbs minus one.
Roomy == aggressiveness >= Cardinality(InputVerbs) - 1

\* C20: with aggressiveness at least the number of distinct verbs minus one
\* nothing is flushed before the input is exhausted, and the output is one
\* group per distinct verb, in order of first appearance, each with all the
\* actions of its verb in input order.
C20_OneGroupPerVerb ==
    Roomy =>
        /\ pc \notin {"L70", "L71", "Y71", "raised"}
        /\ ~FinalPhase => emitted = <<>>
        /\ pc = "done" =>
              /\ Len(emitted) = Cardinality(InputVerbs)
              /\ \A g \in 1..Len(emitted) :
                    /\ emitted[g][1] \in InputVerbs
                    /\ emitted[g][2] = OfVerbIn(emitted[g][1], 1, Len(actions))
              /\ \A g, h \in 1..Len(emitted) :
                    g < h => FirstAt(emitted[g][1]) < FirstAt(emitted[h][1])

\* C20 witness: a drained run with exactly as much room as its three or
\* more verbs need, the verbs interleaved.
C20_Witness ==
    /\ pc = "done"
    /\ Cardinality(InputVerbs) >= 3
    /\ aggressiveness = Cardinality(InputVerbs) - 1
    /\ Len(actions) > Cardinality(InputVerbs)
    /\ actions[Len(actions)].verb = actions[1].verb

====
